---- MODULE Spec2Model ----
(***************************************************************************)
(* Model of the adaptive rate-limited request scheduler                    *)
(* src/src/services/RateLimiter.js (class RateLimiter).                    *)
(*                                                                         *)
(* Time is Date.now() in milliseconds.  The dispatch loop (processLoop),   *)
(* the callers (addRequest), the retry timers (setTimeout in               *)
(* executeRequest) and the request operations all run on one JavaScript    *)
(* event loop: every action below is one run-to-completion segment of the  *)
(* code, from one await / timer callback to the next.                      *)
(*                                                                         *)
(* metrics.averageResponseTime (a floating point figure that getMetrics    *)
(* only copies) is not part of this model.                                 *)
(***************************************************************************)
EXTENDS Integers, Sequences, FiniteSets, TLC

VARIABLES
    now,                    \* Date.now()
    requestsPerSecond,      \* this.requestsPerSecond   (effective capacity, 1 s)
    requestsPerTwoMinutes,  \* this.requestsPerTwoMinutes (effective capacity, 2 min)
    requestTimes,           \* this.requestTimes        (admission timestamps)
    twoMinuteRequests,      \* this.twoMinuteRequests
    priorityQueues,         \* this.priorityQueues : [1..4 -> Seq(request id)]
    isProcessing,           \* this.isProcessing
    consecutiveErrors,      \* this.consecutiveErrors
    lastErrorTime,          \* this.lastErrorTime
    backoffMultiplier,      \* this.backoffMultiplier, in tenths (10 = 1.0)
    cache,                  \* this.cache : key -> NoEntry or [data, timestamp]
    metrics,                \* this.metrics (integer counters)
    requests,               \* every request object created by addRequest, by id
    loopPc,                 \* where processLoop is: "ready", "sleeping", "executing",
                            \* "exited"
    sleepKind,              \* which setTimeout the loop sleeps on: "poll", "wait", "error", or "none"
    loopWake,               \* instant the loop's pending setTimeout is due, 0 when it has none
    current,                \* id of the request executeRequest is running, 0 if none
    execStart,              \* startTime / now captured by executeRequest
    execOrder,              \* history: ids in the order of their first execution attempt
    dequeued,               \* history: the last getNextRequest result, with the queues it saw
    lastBackoff,            \* history: backoffTime at the last throttling failure, and what
                            \* the provider had suggested
    throttleRun,            \* history: throttling failures since the last success, other
                            \* failure, clearQueue or resetRateLimits
    stillRunning,           \* the requests whose operation lost the race against the
                            \* timeout and has not completed yet
    cacheReturn,            \* history: what addRequest last returned from the cache
    submitted,              \* history: the priority each enqueued request was submitted
                            \* with, by id, as a set that is empty when none was given
    recent1s,               \* main.js: recent1s (slot timestamps of the last second)
    recent2m,               \* main.js: recent2m
    apiCalls,               \* main.js: every riotApiRequest call, by id
    slotTimes,              \* history: the instant of every slot acquireRateLimitSlot granted
    loops,                  \* history: the processLoop activations that have not returned
    queuesReset             \* history: clearQueue or stop has returned and addRequest was not called since

vars == << now, requestsPerSecond, requestsPerTwoMinutes, requestTimes,
           twoMinuteRequests, priorityQueues, isProcessing, consecutiveErrors,
           lastErrorTime, backoffMultiplier, cache, metrics, requests, loopPc,
           sleepKind, loopWake, current, execStart, execOrder, dequeued,
           lastBackoff, throttleRun, stillRunning, cacheReturn, submitted,
           recent1s, recent2m, apiCalls, slotTimes,
           loops, queuesReset >>

----------------------------------------------------------------------------
(* Bounds of the model *)

MaxRequests == 2        \* addRequest calls that are enqueued
MaxAttempts == 3        \* execution attempts, over all requests
MaxBackoffAttempts == 5 \* the same, in the specification of the backoff delays
MaxRecoveryAttempts == 7 \* the same, in the specification of the capacity adjustments
MaxTimeoutAttempts == 3 \* the same, in the specification of the timeout
MaxLifecycleAttempts == 3 \* the same, in the specification of stop and start
MaxLoops == 2           \* processLoop activations alive at once
MaxTime == 140000       \* the clock is not advanced beyond this instant
NearShort == 17         \* earlier admissions at the initial instant (1 s window nearly full)
NearLong == 92          \* earlier admissions in the last 2 min (2 min window nearly full)

(* Program constants *)

NominalPerSecond == 18
NominalPerTwoMinutes == 95
FloorPerSecond == 10
FloorPerTwoMinutes == 50
ShortWindow == 1000
LongWindow == 120000
WaitMargin == 50
PollInterval == 100
ErrorSleep == 1000
MaxRetries == 3
MaxBackoff == 30000
CacheTimeout == 30000
DefaultTimeout == 10000

(* src/main.js *)
LIMIT_1S == 20
LIMIT_2M == 100
WINDOW_1S_MS == 1000
WINDOW_2M_MS == 120000

Tiers == 1..4

Max(a, b) == IF a >= b THEN a ELSE b
Min(a, b) == IF a <= b THEN a ELSE b

RECURSIVE Pow2(_)
Pow2(n) == IF n = 0 THEN 1 ELSE 2 * Pow2(n - 1)

----------------------------------------------------------------------------
(* Inputs: what callers pass to addRequest and what operations fail with   *)

PriorityInputs == {1, 5}
NoKey == "none"
KeyInputs == {NoKey, "k1"}
TimeoutInputs == {DefaultTimeout}
LongTimeout == 40000                        \* a caller's timeout longer than the cache TTL
CacheTimeouts == {DefaultTimeout, LongTimeout}
OpDurations == {CacheTimeout}               \* how long an operation takes when it takes time

(* Error messages, as sequences of words.                                  *)
Err429        == << "Request", "failed", "with", "status", "code", "429" >>
ErrRetry5     == << "429", "Too", "Many", "Requests.", "Retry", "after", "5" >>
ErrRetry60    == << "429", "Too", "Many", "Requests.", "Retry", "after", "60" >>
ErrGeneric    == << "API", "Error:", "500" >>
ErrTimeout429 == << "Request", "timeout", "429" >>   \* a timeout error that reads as throttling
ErrTimeout    == << "Request", "timeout" >>
NoMessage     == << >>   \* a rejection value without a message string

ThrottleErrors == {Err429, ErrRetry5, ErrRetry60}
MainErrors == {Err429, ErrGeneric}

(* What the provider suggested, in seconds (0: nothing suggested): the     *)
(* meaning of the inputs above, independent of how the code parses them.   *)
SuggestedSeconds(e) ==
    IF e = ErrRetry5 THEN 5 ELSE IF e = ErrRetry60 THEN 60 ELSE 0

----------------------------------------------------------------------------
(* Pure helpers of the class *)

(* String.prototype.includes, on words *)
Includes(msg, pat) ==
    \E i \in 1..(Len(msg) - Len(pat) + 1) : SubSeq(msg, i, i + Len(pat) - 1) = pat

(* executeRequest: error.message.includes('429') || ...includes('rate limit') *)
IsRateLimitError(msg) ==
    Includes(msg, << "429" >>) \/ Includes(msg, << "rate", "limit" >>)

IsDigits(w) == w \in {"1", "5", "60", "429", "500"}
ParseInt(w) ==
    CASE w = "1" -> 1 [] w = "5" -> 5 [] w = "60" -> 60
      [] w = "429" -> 429 [] w = "500" -> 500

(* executeRequest: the retry-after extraction, /Retry after (\d+)/ *)
RetryAfterOf(msg) ==
    LET hits == { i \in 1..(Len(msg) - 2) :
                    /\ msg[i] = "Retry" /\ msg[i + 1] = "after"
                    /\ IsDigits(msg[i + 2]) }
    IN  IF hits = {} THEN 1
        ELSE ParseInt(msg[(CHOOSE i \in hits : \A j \in hits : i <= j) + 2])

(* backoffTime without the Math.min(..., 30000) ceiling *)
BackoffTimeUnclamped(retryAfter, errors, m10) ==
    Max(retryAfter * 1000, (1000 * Pow2(errors) * m10) \div 10)

(* backoffTime with the ceiling applied to the exponential term only *)
BackoffTimeCeilingOnGrowth(retryAfter, errors, m10) ==
    Max(retryAfter * 1000, Min((1000 * Pow2(errors) * m10) \div 10, MaxBackoff))

(* executeRequest: backoffTime; m10 is the multiplier in tenths *)
BackoffTime(retryAfter, errors, m10) ==
    Min(Max(retryAfter * 1000, (1000 * Pow2(errors) * m10) \div 10), MaxBackoff)

(* the clamp with 3 as its upper end *)
ClampPriorityToThree(p) == Max(1, Min(3, p))

(* addRequest: Math.max(1, Math.min(4, priority)) *)
ClampPriority(p) == Max(1, Min(4, p))

(* canMakeRequest: the filter of one window's timestamps *)
Prune(times, t, window) == SelectSeq(times, LAMBDA x : t - x < window)

(* canMakeRequest with <= in place of < *)
CanMakeRequestInclusive(rt, tm) ==
    Len(rt) <= requestsPerSecond /\ Len(tm) <= requestsPerTwoMinutes

(* canMakeRequest without the check of the 1 s window *)
CanMakeRequestLongOnly(rt, tm) ==
    Len(tm) < requestsPerTwoMinutes

(* canMakeRequest: the decision, on the pruned histories *)
CanMakeRequest(rt, tm) ==
    Len(rt) < requestsPerSecond /\ Len(tm) < requestsPerTwoMinutes

(* waitForRateLimit: the delay of the setTimeout *)
WaitTime(t, rt, tm) ==
    LET timeUntilSecondReset ==
            IF Len(rt) > 0 THEN ShortWindow - (t - rt[1]) + WaitMargin ELSE 0
        timeUntilTwoMinuteReset ==
            IF Len(tm) > 0 THEN LongWindow - (t - tm[1]) + WaitMargin ELSE 0
    IN  Max(Max(timeUntilSecondReset, timeUntilTwoMinuteReset), WaitMargin)

(* getNextRequest: the tier it takes from, 0 when every queue is empty *)
NextTier(queues) ==
    IF \A p \in Tiers : queues[p] = << >> THEN 0
    ELSE CHOOSE p \in Tiers :
            /\ queues[p] # << >>
            /\ \A q \in Tiers : q > p => queues[q] = << >>

(* the threshold one too low *)
ShouldReduceFromSecond(errors) == errors >= 2

(* executeRequest, throttling branch: if (this.consecutiveErrors > 2) *)
ShouldReduce(errors) == errors > 2

(* the reduction of the 1 s capacity without its floor *)
ReducedPerSecondNoFloor(c) == c - 2

(* executeRequest, throttling branch: Math.max(10, rps - 2), Math.max(50, r2m - 10) *)
ReducedPerSecond(c) == Max(FloorPerSecond, c - 2)
ReducedPerTwoMinutes(c) == Max(FloorPerTwoMinutes, c - 10)

(* executeRequest, other errors: Math.min(18, rps + 1), Math.min(95, r2m + 5) *)
RestoredPerSecond(c) ==
    IF c < NominalPerSecond THEN Min(NominalPerSecond, c + 1) ELSE c
RestoredPerTwoMinutes(c) ==
    IF c < NominalPerTwoMinutes THEN Min(NominalPerTwoMinutes, c + 5) ELSE c

(* updateMetrics(true): Math.max(1, backoffMultiplier * 0.9), in tenths *)
DecayedMultiplier(m10) == Max(10, (m10 * 9) \div 10)

RECURSIVE SumAttempts(_, _)
SumAttempts(reqs, n) ==
    IF n = 0 THEN 0 ELSE reqs[n].attempts + SumAttempts(reqs, n - 1)
TotalAttempts == SumAttempts(requests, Len(requests))

InSomeQueue(r) ==
    \E p \in Tiers : \E i \in 1..Len(priorityQueues[p]) : priorityQueues[p][i] = r

(* The other requests waiting in a queue that have not been attempted yet *)
Unattempted(r) ==
    { i \in 1..Len(requests) : i # r /\ InSomeQueue(i) /\ requests[i].attempts = 0 }

QueuesEmpty == \A p \in Tiers : priorityQueues[p] = << >>
Ids == 1..Len(requests)
NoEntry == [data |-> << >>, timestamp |-> -1]

----------------------------------------------------------------------------
(* Initial states: a limiter right after construction, or one that has     *)
(* already served k requests successfully, 18 in each second, the last of  *)
(* them at the initial instant: a 1 s window that is nearly full or full,  *)
(* or a 2 min window that is nearly full.                                  *)

History(k) == [i \in 1..k |-> ((i - 1) \div NominalPerSecond) * 1000]
PriorAdmissions == {0, NearShort, NominalPerSecond, NearLong}

LimiterInitWith(k) ==
    LET h == History(k)
        t0 == IF k = 0 THEN 0 ELSE h[k]
    IN  /\ now = t0
        /\ requestsPerSecond = NominalPerSecond
        /\ requestsPerTwoMinutes = NominalPerTwoMinutes
        /\ requestTimes = Prune(h, t0, ShortWindow)
        /\ twoMinuteRequests = h
        /\ priorityQueues = [p \in Tiers |-> << >>]
        /\ isProcessing = TRUE
        /\ consecutiveErrors = 0
        /\ lastErrorTime = 0
        /\ backoffMultiplier = 10
        /\ cache = [key \in KeyInputs \ {NoKey} |-> NoEntry]
        /\ metrics = [totalRequests |-> k, successfulRequests |-> k,
                      failedRequests |-> 0, rateLimitHits |-> 0, cacheHits |-> 0,
                      lastResetTime |-> 0]
        /\ requests = << >>
        /\ loopPc = "ready"
        /\ sleepKind = "none"
        /\ loopWake = 0
        /\ current = 0
        /\ execStart = t0
        /\ execOrder = << >>
        /\ dequeued = [id |-> 0, tier |-> 0, queues |-> [p \in Tiers |-> << >>]]
        /\ lastBackoff = [id |-> 0, delay |-> 0, suggested |-> 0]
        /\ throttleRun = 0
        /\ stillRunning = {}
        /\ cacheReturn = [key |-> NoKey, data |-> << >>, at |-> 0]
        /\ submitted = << >>
        /\ loops = 1
        /\ queuesReset = FALSE

(* main.js right after it was loaded, or after it has been granted k slots, *)
(* 20 in each second, the last of them at the initial instant, which is 0  *)
(* on the clock of the model                                               *)
MainInitWith(k) ==
    LET h == [i \in 1..k |-> (((i - 1) \div LIMIT_1S) - ((k - 1) \div LIMIT_1S)) * 1000]
    IN  /\ recent1s = SelectSeq(h, LAMBDA x : 0 - x < WINDOW_1S_MS)
        /\ recent2m = h
        /\ apiCalls = << >>
        /\ slotTimes = h

InitWith(k) == LimiterInitWith(k) /\ MainInitWith(0)

Init == \E k \in PriorAdmissions : InitWith(k)

----------------------------------------------------------------------------
(* addRequest *)

NewRequest(p, key, timeout) ==
    [ priority   |-> ClampPriority(p),
      cacheKey   |-> key,
      timeout    |-> timeout,
      timestamp  |-> now,
      retryCount |-> 0,
      where      |-> "queued",     \* queued, executing, backoff (retry timer pending),
                                   \* resolved, rejected, dropped (dequeued, admission
                                   \* denied), abandoned (executeRequest threw),
                                   \* cleared (removed from its queue by clearQueue)
      retryDue   |-> 0,            \* instant the retry timer is due, while in backoff
      attempts   |-> 0,            \* history: invocations of requestFn
      sawQueued  |-> {},           \* history: the requests not yet attempted that were
                                   \* queued when getNextRequest last took this one
      throttles  |-> 0,            \* history: attempts that ended in a throttling failure
      resolves   |-> 0,            \* history: calls of request.resolve
      rejects    |-> 0,            \* history: calls of request.reject
      lastError  |-> << >>,        \* history: what the last failed attempt failed with
      atReset    |-> "none",       \* history: where the request was when clearQueue last
                                   \* ran while the scheduler held it: queued, executing,
                                   \* backoff
      rejectedWith |-> << >> ]     \* history: the argument of request.reject

(* the test of the age of the entry with <= in place of < *)
CacheFreshInclusive(key) ==
    /\ key # NoKey
    /\ cache[key] # NoEntry
    /\ now - cache[key].timestamp <= CacheTimeout

(* the test of the entry without its age *)
CacheFreshAnyAge(key) == key # NoKey /\ cache[key] # NoEntry

(* addRequest: the entry exists and Date.now() - cached.timestamp < cacheTimeout *)
CacheFresh(key) ==
    /\ key # NoKey
    /\ cache[key] # NoEntry
    /\ now - cache[key].timestamp < CacheTimeout

(* addRequest, served from the cache: lines 67-72 *)
AddRequestCached(key) ==
    /\ CacheFresh(key)
    /\ metrics.cacheHits < MaxRequests
    /\ metrics' = [metrics EXCEPT !.cacheHits = @ + 1]
    /\ cacheReturn' = [key |-> key, data |-> cache[key].data, at |-> now]
    /\ queuesReset' = FALSE
    /\ UNCHANGED << now, requestsPerSecond, requestsPerTwoMinutes, requestTimes,
                    twoMinuteRequests, priorityQueues, isProcessing,
                    consecutiveErrors, lastErrorTime, backoffMultiplier, cache,
                    requests, loopPc, sleepKind, loopWake, current, execStart,
                    execOrder, dequeued, lastBackoff,
                    throttleRun, stillRunning, submitted,
                    recent1s, recent2m, apiCalls, slotTimes,
                    loops >>

(* an entry that addRequest finds too old is left in the cache *)
EvictedNothing(c, key) == c

(* addRequest: this.cache.delete(cacheKey) for an entry that is too old, line 73 *)
Evicted(c, key) ==
    IF key # NoKey /\ c[key] # NoEntry THEN [c EXCEPT ![key] = NoEntry] ELSE c

(* addRequest: the defaults of the destructuring of options, lines 60-64 *)
Option(options, name, default) ==
    IF name \in DOMAIN options THEN options[name] ELSE default

(* addRequest, enqueueing: lines 59-90 *)
AddRequestOptions(options) ==
    LET p       == Option(options, "priority", 1)
        key     == Option(options, "cacheKey", NoKey)
        timeout == Option(options, "timeout", DefaultTimeout)
    IN  /\ Len(requests) < MaxRequests
        /\ ~ CacheFresh(key)
        /\ cache' = Evicted(cache, key)
        /\ requests' = Append(requests, NewRequest(p, key, timeout))
        /\ priorityQueues' = [priorityQueues EXCEPT
                                 ![ClampPriority(p)] = Append(@, Len(requests) + 1)]
        /\ metrics' = [metrics EXCEPT !.totalRequests = @ + 1]
        /\ submitted' = Append(submitted, IF "priority" \in DOMAIN options
                                              THEN {options.priority} ELSE {})
        /\ queuesReset' = FALSE
        /\ UNCHANGED << now, requestsPerSecond, requestsPerTwoMinutes, requestTimes,
                        twoMinuteRequests, isProcessing, consecutiveErrors,
                        lastErrorTime, backoffMultiplier, loopPc, sleepKind, loopWake,
                        current, execStart, execOrder, dequeued, lastBackoff,
                        throttleRun, stillRunning, cacheReturn,
                    recent1s, recent2m, apiCalls, slotTimes,
                    loops >>

(* addRequest called with all three options *)
AddRequest(p, key, timeout) ==
    AddRequestOptions([priority |-> p, cacheKey |-> key, timeout |-> timeout])

----------------------------------------------------------------------------
(* processLoop: one iteration, from the top of the while to its next await *)

(* The setTimeout the loop awaits has fired, or the loop has not slept *)
LoopWakes ==
    \/ loopPc = "ready"
    \/ loopPc = "sleeping" /\ sleepKind # "poll" /\ now >= loopWake

(* The phase of the 100 ms poll of an idle loop is not tracked: a poll may *)
(* find a request at the instant it was enqueued or at any later instant   *)
(* the clock reaches, and a poll that finds nothing changes nothing.       *)
LoopPolls == loopPc = "sleeping" /\ sleepKind = "poll"

(* getNextRequest returned null: lines 111-117 *)
LoopIdle ==
    /\ isProcessing
    /\ LoopWakes
    /\ NextTier(priorityQueues) = 0
    /\ loopPc' = "sleeping"
    /\ sleepKind' = "poll"
    /\ loopWake' = now + PollInterval
    /\ UNCHANGED << now, requestsPerSecond, requestsPerTwoMinutes, requestTimes,
                    twoMinuteRequests, priorityQueues, isProcessing,
                    consecutiveErrors, lastErrorTime, backoffMultiplier, cache,
                    metrics, requests, current, execStart, execOrder, dequeued,
                    lastBackoff,
                    throttleRun, stillRunning, cacheReturn, submitted,
                    recent1s, recent2m, apiCalls, slotTimes,
                    loops, queuesReset >>

(* getNextRequest took a request, canMakeRequest said no: lines 111-123.   *)
(* The request was shifted out of its queue and the iteration ends with    *)
(* continue: nothing refers to it any more.                                *)
LoopDenied ==
    /\ isProcessing
    /\ LoopWakes \/ LoopPolls
    /\ NextTier(priorityQueues) # 0
    /\ LET tier == NextTier(priorityQueues)
           r    == Head(priorityQueues[tier])
           rt   == Prune(requestTimes, now, ShortWindow)
           tm   == Prune(twoMinuteRequests, now, LongWindow)
       IN  /\ ~ CanMakeRequest(rt, tm)
           /\ dequeued' = [id |-> r, tier |-> tier, queues |-> priorityQueues]
           /\ priorityQueues' = [priorityQueues EXCEPT ![tier] = Tail(@)]
           /\ requestTimes' = rt
           /\ twoMinuteRequests' = tm
           /\ requests' = [requests EXCEPT ![r].where = "dropped",
                                           ![r].sawQueued = Unattempted(r)]
           /\ loopPc' = "sleeping"
           /\ sleepKind' = "wait"
           /\ loopWake' = now + WaitTime(now, rt, tm)
    /\ UNCHANGED << now, requestsPerSecond, requestsPerTwoMinutes, isProcessing,
                    consecutiveErrors, lastErrorTime, backoffMultiplier, cache,
                    metrics, current, execStart, execOrder, lastBackoff,
                    throttleRun, stillRunning, cacheReturn, submitted,
                    recent1s, recent2m, apiCalls, slotTimes,
                    loops, queuesReset >>

(* getNextRequest took a request, canMakeRequest said yes, executeRequest  *)
(* runs up to its await: lines 111-126 and 186-204                         *)
LoopExecuteWithin(limit) ==
    /\ isProcessing
    /\ LoopWakes \/ LoopPolls
    /\ NextTier(priorityQueues) # 0
    /\ LET tier == NextTier(priorityQueues)
           r    == Head(priorityQueues[tier])
           rt   == Prune(requestTimes, now, ShortWindow)
           tm   == Prune(twoMinuteRequests, now, LongWindow)
       IN  /\ CanMakeRequest(rt, tm)
           /\ TotalAttempts < limit
           /\ dequeued' = [id |-> r, tier |-> tier, queues |-> priorityQueues]
           /\ priorityQueues' = [priorityQueues EXCEPT ![tier] = Tail(@)]
           /\ requestTimes' = Append(rt, now)
           /\ twoMinuteRequests' = Append(tm, now)
           /\ requests' = [requests EXCEPT ![r].where = "executing",
                                           ![r].attempts = @ + 1,
                                           ![r].sawQueued = Unattempted(r)]
           /\ execOrder' = IF requests[r].attempts = 0
                           THEN Append(execOrder, r) ELSE execOrder
           /\ current' = r
           /\ execStart' = now
           /\ loopPc' = "executing"
           /\ sleepKind' = "none"
           /\ loopWake' = 0
    /\ UNCHANGED << now, requestsPerSecond, requestsPerTwoMinutes, isProcessing,
                    consecutiveErrors, lastErrorTime, backoffMultiplier, cache,
                    metrics, lastBackoff,
                    throttleRun, stillRunning, cacheReturn, submitted,
                    recent1s, recent2m, apiCalls, slotTimes,
                    loops, queuesReset >>

LoopExecute == LoopExecuteWithin(MaxAttempts)

----------------------------------------------------------------------------
(* executeRequest after its await: the operation or the timeout settled    *)

Executing == loopPc = "executing" /\ current # 0
Deadline == execStart + requests[current].timeout

(* request.resolve(result): line 218 *)
Resolve(reqs, r) ==
    [reqs EXCEPT ![r].where = "resolved", ![r].resolves = @ + 1]

(* request.reject(error): line 278 *)
Reject(reqs, r, e) ==
    [reqs EXCEPT ![r].where = "rejected", ![r].rejects = @ + 1,
                 ![r].lastError = e, ![r].rejectedWith = e]

(* the retry without its return: the code goes on to request.reject *)
ScheduleRetryAndReject(reqs, r, e, due) ==
    [reqs EXCEPT ![r].retryCount = @ + 1, ![r].where = "backoff",
                 ![r].retryDue = due, ![r].lastError = e,
                 ![r].rejects = @ + 1, ![r].rejectedWith = e]

(* The retry of a throttled request: retryCount++, setTimeout, return:     *)
(* lines 257-263                                                           *)
ScheduleRetry(reqs, r, e, due) ==
    [reqs EXCEPT ![r].retryCount = @ + 1, ![r].where = "backoff",
                 ![r].retryDue = due, ![r].lastError = e]

(* the retry timer with push in place of unshift *)
Push(queue, r) == Append(queue, r)

(* The callback of the retry timer: queue.unshift(request), line 260 *)
Unshift(queue, r) == << r >> \o queue

(* the cache written with the result of the request's first attempt *)
CacheSetFirstResult(c, r, result, t) ==
    IF requests[r].cacheKey # NoKey
    THEN [c EXCEPT ![requests[r].cacheKey] = [data |-> << r, 1 >>, timestamp |-> t]]
    ELSE c

(* executeRequest: this.cache.set(request.cacheKey, {data: result,         *)
(* timestamp: now}), now being the start of the attempt: lines 211-216     *)
CacheSet(c, r, result, t) ==
    IF requests[r].cacheKey # NoKey
    THEN [c EXCEPT ![requests[r].cacheKey] = [data |-> result, timestamp |-> t]]
    ELSE c

(* The operation returned a value before the timeout: lines 206-218 *)
ExecSucceeds ==
    /\ Executing
    /\ now < Deadline
    /\ LET r == current
           result == << r, requests[r].attempts >>
       IN  /\ metrics' = [metrics EXCEPT !.successfulRequests = @ + 1]
           /\ consecutiveErrors' = 0
           /\ throttleRun' = 0
           /\ backoffMultiplier' = DecayedMultiplier(backoffMultiplier)
           /\ cache' = CacheSet(cache, r, result, execStart)
           /\ requests' = Resolve(requests, r)
    /\ loopPc' = "ready"
    /\ current' = 0
    /\ UNCHANGED << now, requestsPerSecond, requestsPerTwoMinutes, requestTimes,
                    twoMinuteRequests, priorityQueues, isProcessing,
                    lastErrorTime, sleepKind, loopWake, execStart, execOrder,
                    dequeued, lastBackoff,
                    stillRunning, cacheReturn, submitted,
                    recent1s, recent2m, apiCalls, slotTimes,
                    loops, queuesReset >>

(* The catch block of executeRequest for an error with a message: 220-279 *)
HandleError(e) ==
    LET r == current
        failed == [metrics EXCEPT !.failedRequests = @ + 1]
    IN  IF IsRateLimitError(e)
        THEN LET errors == consecutiveErrors + 1
                 backoffTime == BackoffTime(RetryAfterOf(e), errors, backoffMultiplier)
             IN  /\ metrics' = [failed EXCEPT !.rateLimitHits = @ + 1]
                 /\ consecutiveErrors' = errors
                 /\ throttleRun' = throttleRun + 1
                 /\ lastErrorTime' = execStart
                 /\ lastBackoff' = [id |-> r, delay |-> backoffTime,
                                    suggested |-> SuggestedSeconds(e)]
                 /\ requestsPerSecond' =
                        IF ShouldReduce(errors) THEN ReducedPerSecond(requestsPerSecond)
                        ELSE requestsPerSecond
                 /\ requestsPerTwoMinutes' =
                        IF ShouldReduce(errors) THEN ReducedPerTwoMinutes(requestsPerTwoMinutes)
                        ELSE requestsPerTwoMinutes
                 /\ requests' =
                        LET counted == [requests EXCEPT ![r].throttles = @ + 1]
                        IN  IF requests[r].retryCount < MaxRetries
                            THEN ScheduleRetry(counted, r, e, now + backoffTime)
                            ELSE Reject(counted, r, e)
                 /\ UNCHANGED backoffMultiplier
        ELSE /\ metrics' = failed
             /\ consecutiveErrors' = 0
             /\ throttleRun' = 0
             /\ backoffMultiplier' = 10
             /\ requestsPerSecond' = RestoredPerSecond(requestsPerSecond)
             /\ requestsPerTwoMinutes' = RestoredPerTwoMinutes(requestsPerTwoMinutes)
             /\ requests' = Reject(requests, r, e)
             /\ UNCHANGED << lastErrorTime, lastBackoff,
                    recent1s, recent2m, apiCalls, slotTimes,
                    loops, queuesReset >>

(* The operation failed with an Error before the timeout *)
ExecFails(e) ==
    /\ Executing
    /\ now < Deadline
    /\ HandleError(e)
    /\ loopPc' = "ready"
    /\ current' = 0
    /\ UNCHANGED << now, requestTimes, twoMinuteRequests, priorityQueues,
                    isProcessing, cache, sleepKind, loopWake, execStart,
                    execOrder, dequeued,
                    stillRunning, cacheReturn, submitted,
                    recent1s, recent2m, apiCalls, slotTimes,
                    loops, queuesReset >>

(* The timeout promise rejected first: lines 196-204, then the catch block *)
ExecTimesOut ==
    /\ Executing
    /\ now >= Deadline
    /\ HandleError(ErrTimeout)
    /\ stillRunning' = stillRunning \cup {current}
    /\ loopPc' = "ready"
    /\ current' = 0
    /\ UNCHANGED << now, requestTimes, twoMinuteRequests, priorityQueues,
                    isProcessing, cache, sleepKind, loopWake, execStart,
                    execOrder, dequeued,
                    cacheReturn, submitted,
                    recent1s, recent2m, apiCalls, slotTimes,
                    loops, queuesReset >>

(* The operation rejected with a value that has no message: updateMetrics  *)
(* runs, error.message.includes throws a TypeError out of executeRequest,  *)
(* and the catch of processLoop sleeps 1000 ms: lines 220-224, 128-131     *)
ExecFailsNoMessage ==
    /\ Executing
    /\ now < Deadline
    /\ metrics' = [metrics EXCEPT !.failedRequests = @ + 1]
    /\ requests' = [requests EXCEPT ![current].where = "abandoned",
                                    ![current].lastError = NoMessage]
    /\ throttleRun' = 0
    /\ loopPc' = "sleeping"
    /\ sleepKind' = "error"
    /\ loopWake' = now + ErrorSleep
    /\ current' = 0
    /\ UNCHANGED << now, requestsPerSecond, requestsPerTwoMinutes, requestTimes,
                    twoMinuteRequests, priorityQueues, isProcessing,
                    consecutiveErrors, lastErrorTime, backoffMultiplier, cache,
                    execStart, execOrder, dequeued, lastBackoff,
                    stillRunning, cacheReturn, submitted,
                    recent1s, recent2m, apiCalls, slotTimes,
                    loops, queuesReset >>

(* An operation that lost the race against its timeout completes, with a   *)
(* value or with a failure: Promise.race has settled, nothing waits for    *)
(* the operation any more: lines 201-204                                   *)
LateCompletion(r) ==
    /\ r \in stillRunning
    /\ stillRunning' = stillRunning \ {r}
    /\ UNCHANGED << now, requestsPerSecond, requestsPerTwoMinutes, requestTimes,
                    twoMinuteRequests, priorityQueues, isProcessing,
                    consecutiveErrors, lastErrorTime, backoffMultiplier, cache,
                    metrics, requests, loopPc, sleepKind, loopWake, current,
                    execStart, execOrder, dequeued, lastBackoff, throttleRun,
                    cacheReturn, submitted,
                    recent1s, recent2m, apiCalls, slotTimes,
                    loops, queuesReset >>

(* The retry timer of executeRequest fires: lines 259-261 *)
RetryFire(r) ==
    /\ requests[r].where = "backoff"
    /\ now >= requests[r].retryDue
    /\ priorityQueues' = [priorityQueues EXCEPT
                             ![requests[r].priority] = Unshift(@, r)]
    /\ requests' = [requests EXCEPT ![r].where = "queued"]
    /\ UNCHANGED << now, requestsPerSecond, requestsPerTwoMinutes, requestTimes,
                    twoMinuteRequests, isProcessing, consecutiveErrors,
                    lastErrorTime, backoffMultiplier, cache, metrics, loopPc,
                    sleepKind, loopWake, current, execStart, execOrder, dequeued,
                    lastBackoff,
                    throttleRun, stillRunning, cacheReturn, submitted,
                    recent1s, recent2m, apiCalls, slotTimes,
                    loops, queuesReset >>

----------------------------------------------------------------------------
(* The clock.  It moves to the next instant at which something happens: a  *)
(* pending timer is due or the running operation times out.  Callbacks due *)
(* at the same instant run in any order.  An operation completes at the    *)
(* instant it started or at any later instant the clock reaches before its *)
(* timeout.                                                                *)

Instants ==
    (IF loopPc = "sleeping" /\ sleepKind # "poll" THEN {loopWake} ELSE {})
    \cup { requests[r].retryDue : r \in { i \in Ids : requests[i].where = "backoff" } }
    \cup (IF Executing THEN {Deadline} ELSE {})

Advance ==
    /\ \E t \in Instants :
          /\ t > now
          /\ \A u \in Instants : u > now => t <= u
          /\ t <= MaxTime
          /\ now' = t
    /\ UNCHANGED << loopWake, requestsPerSecond, requestsPerTwoMinutes, requestTimes,
                    twoMinuteRequests, priorityQueues, isProcessing,
                    consecutiveErrors, lastErrorTime, backoffMultiplier, cache,
                    metrics, requests, loopPc, sleepKind, current, execStart,
                    execOrder, dequeued, lastBackoff,
                    throttleRun, stillRunning, cacheReturn, submitted,
                    recent1s, recent2m, apiCalls, slotTimes,
                    loops, queuesReset >>

(* An operation that takes time: the clock moves to the instant the        *)
(* running operation completes, when no timer is due earlier.              *)
OperationInstants ==
    IF Executing THEN { execStart + d : d \in OpDurations } ELSE {}

AdvanceOperation ==
    /\ \E t \in OperationInstants :
          /\ t > now
          /\ \A u \in Instants : u > now => t <= u
          /\ t <= MaxTime
          /\ now' = t
    /\ UNCHANGED << loopWake, requestsPerSecond, requestsPerTwoMinutes, requestTimes,
                    twoMinuteRequests, priorityQueues, isProcessing,
                    consecutiveErrors, lastErrorTime, backoffMultiplier, cache,
                    metrics, requests, loopPc, sleepKind, current, execStart,
                    execOrder, dequeued, lastBackoff, throttleRun, stillRunning,
                    cacheReturn, submitted,
                    recent1s, recent2m, apiCalls, slotTimes,
                    loops, queuesReset >>

(* A caller may call addRequest at any time; the instants that matter to   *)
(* it are the last one at which a cache entry is younger than the TTL and  *)
(* the first one at which it is not.  The clock moves there when no timer  *)
(* is due earlier.                                                         *)
CallerInstants ==
    UNION { { cache[key].timestamp + CacheTimeout - 1,
              cache[key].timestamp + CacheTimeout } :
            key \in { k \in DOMAIN cache : cache[k] # NoEntry } }

AdvanceToCaller ==
    /\ \E t \in CallerInstants :
          /\ t > now
          /\ \A u \in Instants : u > now => t <= u
          /\ t <= MaxTime
          /\ now' = t
    /\ UNCHANGED << loopWake, requestsPerSecond, requestsPerTwoMinutes, requestTimes,
                    twoMinuteRequests, priorityQueues, isProcessing,
                    consecutiveErrors, lastErrorTime, backoffMultiplier, cache,
                    metrics, requests, loopPc, sleepKind, current, execStart,
                    execOrder, dequeued, lastBackoff, throttleRun, stillRunning,
                    cacheReturn, submitted,
                    recent1s, recent2m, apiCalls, slotTimes,
                    loops, queuesReset >>

----------------------------------------------------------------------------
(* The operations on the limiter that the application calls directly *)

(* The body of clearQueue: lines 352-357.  The requests in the queues are  *)
(* forgotten, their promises untouched.                                    *)
ClearQueueState ==
    /\ priorityQueues' = [p \in Tiers |-> << >>]
    /\ requests' = [r \in Ids |->
                        IF InSomeQueue(r)
                        THEN [requests[r] EXCEPT !.where = "cleared",
                                                 !.atReset = "queued"]
                        ELSE IF requests[r].where \in {"executing", "backoff"}
                        THEN [requests[r] EXCEPT !.atReset = requests[r].where]
                        ELSE requests[r]]
    /\ requestTimes' = << >>
    /\ twoMinuteRequests' = << >>
    /\ consecutiveErrors' = 0
    /\ backoffMultiplier' = 10
    /\ cache' = [key \in DOMAIN cache |-> NoEntry]
    /\ throttleRun' = 0
    /\ queuesReset' = TRUE
    /\ UNCHANGED << now, requestsPerSecond, requestsPerTwoMinutes,
                    lastErrorTime, metrics, loopPc, sleepKind, loopWake, current,
                    execStart, execOrder, dequeued, lastBackoff, stillRunning,
                    cacheReturn, submitted,
                    recent1s, recent2m, apiCalls, slotTimes,
                    loops >>

(* clearQueue: lines 351-358 *)
ClearQueue == ClearQueueState /\ UNCHANGED isProcessing

(* stop: lines 363-366 *)
Stop == isProcessing' = FALSE /\ ClearQueueState

(* startProcessing when the limiter is not processing: lines 97-102.  The  *)
(* new processLoop is counted; the model follows one loop, the new one     *)
(* when the loop before has returned, and its first iteration is the next  *)
(* step of the loop.                                                       *)
StartProcessing ==
    /\ ~ isProcessing
    /\ loops < MaxLoops
    /\ isProcessing' = TRUE
    /\ loops' = loops + 1
    /\ loopPc' = IF loopPc = "exited" THEN "ready" ELSE loopPc
    /\ UNCHANGED << now, requestsPerSecond, requestsPerTwoMinutes, requestTimes,
                    twoMinuteRequests, priorityQueues, consecutiveErrors,
                    lastErrorTime, backoffMultiplier, cache, metrics, requests,
                    sleepKind, loopWake, current, execStart, execOrder, dequeued,
                    lastBackoff, throttleRun, stillRunning, cacheReturn, submitted,
                    recent1s, recent2m, apiCalls, slotTimes, queuesReset >>

(* The loop the model follows resumes from its await and finds             *)
(* isProcessing false: the while ends and processLoop returns, line 109    *)
LoopReturns ==
    /\ ~ isProcessing
    /\ loopPc # "exited"
    /\ LoopWakes \/ LoopPolls
    /\ loopPc' = "exited"
    /\ sleepKind' = "none"
    /\ loopWake' = 0
    /\ loops' = loops - 1
    /\ UNCHANGED << now, requestsPerSecond, requestsPerTwoMinutes, requestTimes,
                    twoMinuteRequests, priorityQueues, isProcessing,
                    consecutiveErrors, lastErrorTime, backoffMultiplier, cache,
                    metrics, requests, current, execStart, execOrder, dequeued,
                    lastBackoff, throttleRun, stillRunning, cacheReturn, submitted,
                    recent1s, recent2m, apiCalls, slotTimes, queuesReset >>

(* A loop the model does not follow resumes and returns the same way *)
OtherLoopReturns ==
    /\ ~ isProcessing
    /\ loops > (IF loopPc = "exited" THEN 0 ELSE 1)
    /\ loops' = loops - 1
    /\ UNCHANGED << now, requestsPerSecond, requestsPerTwoMinutes, requestTimes,
                    twoMinuteRequests, priorityQueues, isProcessing,
                    consecutiveErrors, lastErrorTime, backoffMultiplier, cache,
                    metrics, requests, loopPc, sleepKind, loopWake, current,
                    execStart, execOrder, dequeued, lastBackoff, throttleRun,
                    stillRunning, cacheReturn, submitted,
                    recent1s, recent2m, apiCalls, slotTimes, queuesReset >>

(* resetRateLimits: lines 386-392 *)
ResetRateLimits ==
    /\ requestsPerSecond' = NominalPerSecond
    /\ requestsPerTwoMinutes' = NominalPerTwoMinutes
    /\ consecutiveErrors' = 0
    /\ backoffMultiplier' = 10
    /\ throttleRun' = 0
    /\ UNCHANGED << now, requestTimes, twoMinuteRequests, priorityQueues,
                    isProcessing, lastErrorTime, cache, metrics, requests, loopPc,
                    sleepKind, loopWake, current, execStart, execOrder, dequeued,
                    lastBackoff, stillRunning, cacheReturn, submitted,
                    recent1s, recent2m, apiCalls, slotTimes,
                    loops, queuesReset >>

----------------------------------------------------------------------------

(* The scheduler under callers that pass a priority, no cache key and the  *)
(* default timeout, with operations that succeed, fail with a throttling   *)
(* error, fail otherwise, or never complete.                               *)
Next ==
    \/ \E p \in PriorityInputs : AddRequest(p, NoKey, DefaultTimeout)
    \/ LoopIdle
    \/ LoopDenied
    \/ LoopExecute
    \/ ExecSucceeds
    \/ \E e \in MainErrors : ExecFails(e)
    \/ ExecTimesOut
    \/ ExecFailsNoMessage
    \/ \E r \in Ids : RetryFire(r)
    \/ Advance

Spec == Init /\ [][Next]_vars

(* The scheduler, freshly constructed, under a caller that submits one     *)
(* request after the other and operations that fail with every kind of     *)
(* throttling error.                                                       *)
AddRequestInTurn ==
    /\ \A r \in Ids : requests[r].resolves + requests[r].rejects > 0
    /\ AddRequest(1, NoKey, DefaultTimeout)

LoopExecuteBackoff == LoopExecuteWithin(MaxBackoffAttempts)

NextBackoff ==
    \/ AddRequestInTurn
    \/ LoopIdle
    \/ LoopExecuteBackoff
    \/ ExecSucceeds
    \/ \E e \in ThrottleErrors : ExecFails(e)
    \/ \E r \in Ids : RetryFire(r)
    \/ Advance

SpecBackoff == InitWith(0) /\ [][NextBackoff]_vars

(* The scheduler, freshly constructed, under a caller that submits a       *)
(* request when the scheduler holds none, operations that succeed, fail    *)
(* with a throttling error or fail otherwise, and an application that      *)
(* calls clearQueue and resetRateLimits at any moment.                     *)
AddRequestWhenFree ==
    /\ QueuesEmpty
    /\ current = 0
    /\ \A r \in Ids : requests[r].where # "backoff"
    /\ AddRequest(1, NoKey, DefaultTimeout)

LoopExecuteRecovery == LoopExecuteWithin(MaxRecoveryAttempts)

NextRecovery ==
    \/ AddRequestWhenFree
    \/ LoopIdle
    \/ LoopExecuteRecovery
    \/ ExecSucceeds
    \/ \E e \in MainErrors : ExecFails(e)
    \/ \E r \in Ids : RetryFire(r)
    \/ Advance
    \/ ClearQueue
    \/ ResetRateLimits

SpecRecovery == InitWith(0) /\ [][NextRecovery]_vars

(* The scheduler, freshly constructed, under callers that pass one cache   *)
(* key and the default timeout or a longer one, at any time, with          *)
(* operations that succeed, at once or after some time, fail, or do not    *)
(* complete within the timeout.                                            *)
(* No attempt is repeated here: one attempt for each request.               *)
LoopExecuteCache == LoopExecuteWithin(MaxRequests)

NextCache ==
    \/ \E t \in CacheTimeouts : AddRequest(1, "k1", t)
    \/ AddRequestCached("k1")
    \/ LoopIdle
    \/ LoopExecuteCache
    \/ ExecSucceeds
    \/ ExecFails(ErrGeneric)
    \/ ExecTimesOut
    \/ Advance
    \/ AdvanceOperation
    \/ AdvanceToCaller

SpecCache == InitWith(0) /\ [][NextCache]_vars

(* The scheduler, freshly constructed, under callers that pass one cache   *)
(* key, with operations that succeed, fail with a throttling error, fail   *)
(* otherwise, or do not complete within the timeout and complete later.    *)
LoopExecuteTimeout == LoopExecuteWithin(MaxTimeoutAttempts)

NextTimeout ==
    \/ AddRequest(1, "k1", DefaultTimeout)
    \/ LoopIdle
    \/ LoopExecuteTimeout
    \/ ExecSucceeds
    \/ \E e \in MainErrors : ExecFails(e)
    \/ ExecTimesOut
    \/ \E r \in Ids : LateCompletion(r)
    \/ \E r \in Ids : RetryFire(r)
    \/ Advance

SpecTimeout == InitWith(0) /\ [][NextTimeout]_vars

TypeOK ==
    /\ requestsPerSecond \in FloorPerSecond..NominalPerSecond
    /\ requestsPerTwoMinutes \in FloorPerTwoMinutes..NominalPerTwoMinutes
    /\ loopPc \in {"ready", "sleeping", "executing", "exited"}
    /\ Len(requests) <= MaxRequests

----------------------------------------------------------------------------
(* Vocabulary of the properties *)

Settled(r) == requests[r].resolves + requests[r].rejects > 0

(* The scheduler still refers to the request: it is in a queue, it is the  *)
(* one being executed, or its retry timer is pending.                      *)
Pending(r) ==
    InSomeQueue(r) \/ current = r \/ requests[r].where = "backoff"

CountWithin(times, t, window) ==
    Cardinality({ i \in 1..Len(times) : t - times[i] < window })

Position(seq, x) == CHOOSE i \in 1..Len(seq) : seq[i] = x
Occurs(seq, x) == \E i \in 1..Len(seq) : seq[i] = x

(* executeRequest has just recorded an admission *)
Admitting == loopPc = "executing" /\ loopPc' # "executing"
Admitted == loopPc # "executing" /\ loopPc' = "executing"

(* the catch block has just taken its throttling branch *)
Throttled == metrics'.rateLimitHits = metrics.rateLimitHits + 1

(* updateMetrics(false) has just run and the throttling branch was not    *)
(* taken: an execution failed with something else than a throttling error *)
NonThrottlingFailure ==
    /\ metrics'.failedRequests = metrics.failedRequests + 1
    /\ metrics'.rateLimitHits = metrics.rateLimitHits

(* the timeout has just won the race against the operation *)
TimedOut == stillRunning' # stillRunning /\ stillRunning \subseteq stillRunning'

(* an operation that had lost the race has just completed *)
LateCompleted == stillRunning' # stillRunning /\ stillRunning' \subseteq stillRunning

(* addRequest has just returned from the cache *)
CacheHit == metrics'.cacheHits = metrics.cacheHits + 1

(* addRequest has just enqueued a request *)
Enqueued == Len(requests') = Len(requests) + 1

(* updateMetrics(true) has just run: an execution succeeded *)
Succeeded == metrics'.successfulRequests = metrics.successfulRequests + 1

----------------------------------------------------------------------------
(* C1: a request that the loop has taken out of its queue and that was     *)
(* denied admission is not lost: while the loop waits for the window, the  *)
(* request is back in a queue.  Stated as in the claim; the code violates  *)
(* it.                                                                     *)
C1_DeniedRequestKept ==
    (loopPc = "sleeping" /\ sleepKind = "wait" /\ dequeued.id # 0)
        => InSomeQueue(dequeued.id)

(* C2: no request is silently dropped: every request that was enqueued is  *)
(* settled or still held by the scheduler.  Stated as in the claim; the    *)
(* code violates it.                                                       *)
C2_NoSilentDrop ==
    \A r \in Ids : Settled(r) \/ Pending(r)

(* C3: at the moment executeRequest records an admission, first attempt or *)
(* retry, the admissions less than 1000 ms old, the new one included, are  *)
(* at most requestsPerSecond and those less than 120000 ms old at most     *)
(* requestsPerTwoMinutes.                                                  *)
C3_NoOverAdmission ==
    [][ Admitted =>
          /\ CountWithin(requestTimes', now', ShortWindow) <= requestsPerSecond'
          /\ CountWithin(twoMinuteRequests', now', LongWindow) <= requestsPerTwoMinutes'
      ]_vars

(* an admission of a retry has just filled the 2 min window *)
C3_Witness ==
    /\ Executing
    /\ now = execStart
    /\ requests[current].retryCount > 0
    /\ CountWithin(twoMinuteRequests, now, LongWindow) = requestsPerTwoMinutes

(* C4, as claimed: in every reachable state the admissions inside each     *)
(* window are at most the window's current effective capacity.             *)
C4_WithinEffectiveCapacity ==
    /\ CountWithin(requestTimes, now, ShortWindow) <= requestsPerSecond
    /\ CountWithin(twoMinuteRequests, now, LongWindow) <= requestsPerTwoMinutes

(* C4, amended: in every reachable state the admissions inside each window *)
(* are at most the window's nominal capacity, 18 and 95.                   *)
C4_WithinNominalCapacity ==
    /\ CountWithin(requestTimes, now, ShortWindow) <= NominalPerSecond
    /\ CountWithin(twoMinuteRequests, now, LongWindow) <= NominalPerTwoMinutes

(* a throttling failure has reduced the capacity below the admissions      *)
(* already inside the 2 min window                                         *)
C4_Witness ==
    /\ requestsPerTwoMinutes < NominalPerTwoMinutes
    /\ CountWithin(twoMinuteRequests, now, LongWindow) > requestsPerTwoMinutes

(* C5: a promise is settled at most once, and a request that is queued,    *)
(* executing or waiting for its retry timer is unsettled: nothing happens  *)
(* to a request after its promise was resolved or rejected.                *)
C5_SettledOnce ==
    \A r \in Ids :
        /\ requests[r].resolves + requests[r].rejects <= 1
        /\ Pending(r) => ~ Settled(r)

(* a request that had been throttled and put back in its queue was        *)
(* settled by a later attempt                                              *)
C5_Witness ==
    \E r \in Ids :
        /\ Settled(r)
        /\ requests[r].retryCount > 0
        /\ requests[r].attempts = requests[r].retryCount + 1

(* C6: when a request of a higher tier and a request of a lower tier are   *)
(* both queued, neither attempted yet, at the moment the loop dequeues,    *)
(* the request of the higher tier is executed first.  Stated as in the     *)
(* claim; the code violates it.                                            *)
C6_HigherTierExecutedFirst ==
    \A hi \in Ids : \A lo \in requests[hi].sawQueued :
        (requests[hi].priority > requests[lo].priority /\ Occurs(execOrder, lo))
            => /\ Occurs(execOrder, hi)
               /\ Position(execOrder, hi) < Position(execOrder, lo)

(* C7: of two requests of the same tier, the one enqueued first starts its *)
(* first execution attempt before the other one starts its first attempt.  *)
(* Stated as in the claim; the code violates it.                           *)
C7_FifoWithinTier ==
    \A i \in Ids : \A j \in Ids :
        (i < j /\ requests[i].priority = requests[j].priority
               /\ Occurs(execOrder, j))
            => /\ Occurs(execOrder, i)
               /\ Position(execOrder, i) < Position(execOrder, j)

(* C8: a request all of whose attempts failed with a throttling error is   *)
(* waiting for a retry (fewer than 4 attempts made, retryCount = attempts  *)
(* made) or was rejected by its 4th attempt with that attempt's error; it  *)
(* is never left pending.  Stated as in the claim; the code violates it.   *)
C8_ThrottledRetriedThenRejected ==
    \A r \in Ids :
        (/\ requests[r].attempts > 0
         /\ requests[r].throttles = requests[r].attempts
         /\ current # r)
            => \/ /\ requests[r].retryCount = requests[r].attempts
                  /\ requests[r].attempts <= MaxRetries
                  /\ ~ Settled(r)
                  /\ InSomeQueue(r) \/ requests[r].where = "backoff"
               \/ /\ requests[r].attempts = MaxRetries + 1
                  /\ requests[r].retryCount = MaxRetries
                  /\ requests[r].rejects = 1
                  /\ requests[r].resolves = 0
                  /\ requests[r].rejectedWith = requests[r].lastError
                  /\ IsRateLimitError(requests[r].rejectedWith)

(* C9: a throttling failure of a request with retryCount below 3 adds one  *)
(* to retryCount, leaves the promise unsettled and the request in no       *)
(* queue, and sets its timer to the backoff delay; until the timer fires   *)
(* the request stays out of the queues and unsettled, and the timer, which *)
(* fires no earlier than the delay, puts it at the head of the queue of    *)
(* its tier.                                                               *)
C9_RetryAtFront ==
    [][ \A r \in Ids :
          /\ (Throttled /\ current = r /\ requests[r].retryCount < MaxRetries)
                => /\ requests'[r].retryCount = requests[r].retryCount + 1
                   /\ requests'[r].resolves + requests'[r].rejects = 0
                   /\ \A p \in Tiers : \A i \in 1..Len(priorityQueues'[p]) :
                          priorityQueues'[p][i] # r
                   /\ requests'[r].where = "backoff"
                   /\ requests'[r].retryDue = now + lastBackoff'.delay
          /\ requests[r].where = "backoff"
                => /\ ~ InSomeQueue(r)
                   /\ ~ Settled(r)
                   /\ \/ /\ requests'[r].where = "backoff"
                         /\ \A p \in Tiers : \A i \in 1..Len(priorityQueues'[p]) :
                                priorityQueues'[p][i] # r
                      \/ /\ now >= requests[r].retryDue
                         /\ requests'[r].retryCount = requests[r].retryCount
                         /\ priorityQueues'[requests[r].priority] =
                                << r >> \o priorityQueues[requests[r].priority]
                         /\ \A p \in Tiers \ {requests[r].priority} :
                                priorityQueues'[p] = priorityQueues[p]
      ]_vars

(* a retried request was put in front of a request waiting in its tier *)
C9_Witness ==
    \E r \in Ids :
        LET q == priorityQueues[requests[r].priority]
        IN  /\ requests[r].retryCount > 0
            /\ Len(q) >= 2
            /\ q[1] = r
            /\ requests[q[2]].attempts = 0

(* C10: the backoff delay of a throttling failure is                       *)
(* min(30000, max(h, 1000 * 2^c * m)), c the consecutive-error count after *)
(* the increment for this failure, m the backoff multiplier, h 1000 times  *)
(* the seconds the provider suggested, 1000 if it suggested nothing.       *)
C10_BackoffDelay ==
    [][ Throttled =>
          LET c == consecutiveErrors'
              h == IF lastBackoff'.suggested = 0 THEN 1000
                   ELSE 1000 * lastBackoff'.suggested
              grown == (1000 * Pow2(c) * backoffMultiplier') \div 10
          IN  /\ c = consecutiveErrors + 1
              /\ lastBackoff'.delay = Min(30000, Max(h, grown))
              /\ lastBackoff'.delay <= 30000
      ]_vars

(* the provider suggested more than the ceiling and the delay is 30000 *)
C10_Witness ==
    /\ lastBackoff.id # 0
    /\ lastBackoff.suggested * 1000 > MaxBackoff
    /\ lastBackoff.delay = MaxBackoff

(* C11, as claimed: within a run of consecutive throttling failures every  *)
(* backoff delay is at least the delay of the failure before it, whatever  *)
(* the failures carry as suggested delays, and no delay exceeds 30000.     *)
C11_BackoffNonDecreasing ==
    [][ Throttled =>
          /\ lastBackoff'.delay <= MaxBackoff
          /\ throttleRun > 0 => lastBackoff'.delay >= lastBackoff.delay
      ]_vars

(* C11, amended: no delay exceeds 30000, and within a run of consecutive   *)
(* throttling failures a delay is at least the delay of the failure before *)
(* it whenever the provider suggested no less than it had suggested at     *)
(* that failure (nothing suggested counts as the least).                   *)
C11_NonDecreasingUnderRisingSuggestions ==
    [][ Throttled =>
          /\ lastBackoff'.delay <= MaxBackoff
          /\ (throttleRun > 0 /\ lastBackoff'.suggested >= lastBackoff.suggested)
                => lastBackoff'.delay >= lastBackoff.delay
      ]_vars

(* the third throttling failure of a run carried a suggestion of 5 s and   *)
(* got the longer exponential delay                                        *)
C11_Witness ==
    /\ throttleRun >= 3
    /\ consecutiveErrors = throttleRun
    /\ lastBackoff.suggested = 5
    /\ lastBackoff.delay > 5000

(* C12: every successful execution raises each effective capacity that is  *)
(* below nominal, requestsPerSecond toward 18 and requestsPerTwoMinutes    *)
(* toward 95.  Stated as in the claim; the code violates it.               *)
C12_SuccessRaisesCapacities ==
    [][ Succeeded =>
          /\ requestsPerSecond < NominalPerSecond
                => /\ requestsPerSecond' > requestsPerSecond
                   /\ requestsPerSecond' <= NominalPerSecond
          /\ requestsPerTwoMinutes < NominalPerTwoMinutes
                => /\ requestsPerTwoMinutes' > requestsPerTwoMinutes
                   /\ requestsPerTwoMinutes' <= NominalPerTwoMinutes
      ]_vars

(* C13: in every reachable state 10 <= requestsPerSecond <= 18 and         *)
(* 50 <= requestsPerTwoMinutes <= 95, under successes, throttling          *)
(* failures, other failures, clearQueue and resetRateLimits.               *)
C13_CapacitiesInRange ==
    /\ FloorPerSecond <= requestsPerSecond
    /\ requestsPerSecond <= NominalPerSecond
    /\ FloorPerTwoMinutes <= requestsPerTwoMinutes
    /\ requestsPerTwoMinutes <= NominalPerTwoMinutes

(* a throttling failure found both capacities one reduction away from      *)
(* below their floors and left them at the floors                          *)
C13_Witness ==
    /\ requestsPerSecond = FloorPerSecond
    /\ requestsPerTwoMinutes = FloorPerTwoMinutes
    /\ consecutiveErrors = 7

(* C14: a throttling failure reduces requestsPerSecond by 2 and            *)
(* requestsPerTwoMinutes by 10, floored at 10 and 50, if the               *)
(* consecutive-error count after its increment is greater than 2, and      *)
(* leaves both unchanged otherwise, whether the request is retried or      *)
(* rejected.                                                               *)
C14_ReductionFromThirdThrottle ==
    [][ Throttled =>
          IF consecutiveErrors' > 2
          THEN /\ requestsPerSecond' = Max(10, requestsPerSecond - 2)
               /\ requestsPerTwoMinutes' = Max(50, requestsPerTwoMinutes - 10)
          ELSE /\ requestsPerSecond' = requestsPerSecond
               /\ requestsPerTwoMinutes' = requestsPerTwoMinutes
      ]_vars

(* the fourth consecutive throttling failure exhausted the retries of its  *)
(* request, rejected it, and reduced the capacities a second time          *)
C14_Witness ==
    /\ consecutiveErrors = 4
    /\ requestsPerSecond = NominalPerSecond - 4
    /\ requestsPerTwoMinutes = NominalPerTwoMinutes - 20
    /\ \E r \in Ids :
          /\ lastBackoff.id = r
          /\ requests[r].throttles = MaxRetries + 1
          /\ requests[r].rejects = 1

(* C15: consecutiveErrors equals the number of throttling failures since   *)
(* the most recent success, non-throttling failure, clearQueue or          *)
(* resetRateLimits.  Stated as in the claim; the code violates it.         *)
C15_ConsecutiveErrorsCountsRun ==
    consecutiveErrors = throttleRun

(* C16: a non-throttling failure, whatever the operation failed with,      *)
(* rejects the promise with that failure in the same step, and the request *)
(* is not requeued: it is in no queue and has no retry timer.  Stated as   *)
(* in the claim; the code violates it.                                     *)
C16_OtherFailureRejects ==
    [][ NonThrottlingFailure =>
          LET r == current
          IN  /\ requests'[r].rejects = requests[r].rejects + 1
              /\ requests'[r].resolves = 0
              /\ requests'[r].rejectedWith = requests'[r].lastError
              /\ requests'[r].retryCount = requests[r].retryCount
              /\ requests'[r].where = "rejected"
              /\ \A p \in Tiers : \A i \in 1..Len(priorityQueues'[p]) :
                     priorityQueues'[p][i] # r
      ]_vars

(* C17: a non-throttling failure, a timeout included, leaves               *)
(* consecutiveErrors at 0, backoffMultiplier at 1, requestsPerSecond at    *)
(* min(18, old + 1) and requestsPerTwoMinutes at min(95, old + 5), counts  *)
(* no rate-limit hit and schedules no retry.  Stated as in the claim; the  *)
(* code violates it.                                                       *)
C17_OtherFailureResets ==
    [][ NonThrottlingFailure =>
          /\ consecutiveErrors' = 0
          /\ backoffMultiplier' = 10
          /\ requestsPerSecond' = Min(18, requestsPerSecond + 1)
          /\ requestsPerTwoMinutes' = Min(95, requestsPerTwoMinutes + 5)
          /\ requests'[current].retryCount = requests[current].retryCount
          /\ requests'[current].where # "backoff"
      ]_vars

(* C19: while a request is being executed, every other request that has   *)
(* been attempted is settled and its operation has completed: nothing is   *)
(* dispatched while another request waits out its backoff delay or while   *)
(* an earlier operation is still running.  Stated as in the claim; the     *)
(* code violates it.                                                       *)
C19_OneAtATime ==
    \A r \in Ids :
        (current # 0 /\ r # current /\ requests[r].attempts > 0)
            => /\ Settled(r)
               /\ r \notin stillRunning

(* C18: when the timeout of a request fires before its operation has       *)
(* completed, the promise is rejected with the timeout error in that step, *)
(* no earlier than the timeout, the request is not requeued and            *)
(* consecutiveErrors is not incremented; the request stays rejected once   *)
(* and out of the queues while its operation runs on, and the later        *)
(* completion of the operation changes no state of the scheduler.          *)
C18_TimeoutRejectsOnce ==
    [][ /\ TimedOut =>
              LET r == current
              IN  /\ now >= execStart + requests[r].timeout
                  /\ requests'[r].rejects = 1
                  /\ requests'[r].resolves = 0
                  /\ requests'[r].rejectedWith = ErrTimeout
                  /\ requests'[r].retryCount = requests[r].retryCount
                  /\ requests'[r].where = "rejected"
                  /\ consecutiveErrors' <= consecutiveErrors
                  /\ metrics'.rateLimitHits = metrics.rateLimitHits
                  /\ cache' = cache
        /\ \A r \in stillRunning :
              /\ requests'[r].rejects = 1
              /\ requests'[r].resolves = 0
              /\ requests'[r].where = "rejected"
              /\ \A p \in Tiers : \A i \in 1..Len(priorityQueues'[p]) :
                     priorityQueues'[p][i] # r
        /\ LateCompleted =>
              UNCHANGED << requestsPerSecond, requestsPerTwoMinutes, requestTimes,
                           twoMinuteRequests, priorityQueues, isProcessing,
                           consecutiveErrors, lastErrorTime, backoffMultiplier,
                           cache, metrics, requests, loopPc, sleepKind, loopWake,
                           current,
                    recent1s, recent2m, apiCalls, slotTimes,
                    loops, queuesReset >>
      ]_vars

(* the operation of a request that was rejected with the timeout error has *)
(* completed later, and the cache has no entry for the request's key       *)
C18_Witness ==
    \E r \in Ids :
        /\ requests[r].rejectedWith = ErrTimeout
        /\ requests[r].rejects = 1
        /\ r \notin stillRunning
        /\ requests[r].cacheKey # NoKey
        /\ cache[requests[r].cacheKey] = NoEntry

(* C20: addRequest with a cacheKey whose entry is younger than 30000 ms    *)
(* returns the entry's value, invokes no operation and changes nothing but *)
(* cacheHits, which it increments; a request with a cacheKey is enqueued   *)
(* only when the key has no entry younger than 30000 ms.                   *)
C20_CacheHitFrame ==
    [][ /\ CacheHit =>
              LET key == cacheReturn'.key
              IN  /\ key # NoKey
                  /\ cache[key] # NoEntry
                  /\ now - cache[key].timestamp < 30000
                  /\ cacheReturn'.data = cache[key].data
                  /\ metrics' = [metrics EXCEPT !.cacheHits = @ + 1]
                  /\ UNCHANGED << requestsPerSecond, requestsPerTwoMinutes,
                                  requestTimes, twoMinuteRequests, priorityQueues,
                                  consecutiveErrors, lastErrorTime,
                                  backoffMultiplier, cache, requests, current,
                                  loopPc, isProcessing >>
        /\ Enqueued =>
              LET key == requests'[Len(requests')].cacheKey
              IN  \/ key = NoKey
                  \/ cache[key] = NoEntry
                  \/ now - cache[key].timestamp >= 30000
      ]_vars

(* addRequest returned the value of the first request's first attempt from *)
(* the cache at the last instant the entry was younger than the TTL        *)
C20_Witness ==
    /\ metrics.cacheHits > 0
    /\ cacheReturn.key = "k1"
    /\ cacheReturn.data = << 1, 1 >>
    /\ cache["k1"] # NoEntry
    /\ cacheReturn.at - cache["k1"].timestamp = CacheTimeout - 1

(* C21: addRequest with a cacheKey whose entry is at least 30000 ms old    *)
(* does not return the stored value: it removes the entry and enqueues the *)
(* request in its tier like any other; and whenever addRequest returns     *)
(* from the cache the entry is younger than 30000 ms.                      *)
C21_StaleEntryEvicted ==
    [][ /\ Enqueued =>
              LET r   == Len(requests')
                  key == requests'[r].cacheKey
              IN  (key # NoKey /\ cache[key] # NoEntry)
                     => /\ now - cache[key].timestamp >= 30000
                        /\ cache'[key] = NoEntry
                        /\ cacheReturn' = cacheReturn
                        /\ metrics'.cacheHits = metrics.cacheHits
                        /\ requests'[r].where = "queued"
                        /\ requests'[r].attempts = 0
                        /\ priorityQueues'[requests'[r].priority] =
                               Append(priorityQueues[requests'[r].priority], r)
        /\ CacheHit => now - cache[cacheReturn'.key].timestamp < 30000
      ]_vars

(* the entry written by the first request was exactly 30000 ms old when    *)
(* the second request came: the second was enqueued and executed           *)
C21_Witness ==
    /\ Len(requests) >= 2
    /\ requests[1].resolves = 1
    /\ requests[1].timeout = DefaultTimeout
    /\ requests[2].cacheKey = requests[1].cacheKey
    /\ requests[2].timestamp = CacheTimeout
    /\ requests[2].attempts = 1

(* C22: when an attempt of a request with a cacheKey succeeds with a       *)
(* value, a lookup made right after the completion finds that value, and   *)
(* the TTL of the entry runs from the instant of the completion, whatever  *)
(* the duration of the operation and the timeout.  Stated as in the claim; *)
(* the code violates it.                                                   *)
C22_RoundTripUntilTtl ==
    [][ (Succeeded /\ requests[current].cacheKey # NoKey) =>
          LET key == requests[current].cacheKey
          IN  /\ cache'[key] # NoEntry
              /\ cache'[key].data = << current, requests[current].attempts >>
              /\ now - cache'[key].timestamp < CacheTimeout
              /\ cache'[key].timestamp = now
      ]_vars

(* C23: an attempt that ends in a failure, throttling or not, or in a      *)
(* timeout leaves the cache unchanged; an entry is written for a key only  *)
(* in the step in which an attempt of a request carrying that key          *)
(* succeeds, and it holds the result of that attempt.                      *)
C23_CacheWrittenOnSuccessOnly ==
    [][ /\ metrics'.failedRequests = metrics.failedRequests + 1 => cache' = cache
        /\ \A key \in DOMAIN cache :
              (cache'[key] # cache[key] /\ cache'[key] # NoEntry)
                 => /\ Succeeded
                    /\ current # 0
                    /\ requests[current].cacheKey = key
                    /\ cache'[key].data = << current, requests[current].attempts >>
      ]_vars

(* the entry written by the second attempt of a request is still there     *)
(* after a later attempt of another request with the same key has timed    *)
(* out                                                                     *)
C23_Witness ==
    /\ cache["k1"] # NoEntry
    /\ cache["k1"].data[2] = 2
    /\ current = 0
    /\ \E r \in Ids :
          /\ r # cache["k1"].data[1]
          /\ dequeued.id = r
          /\ requests[r].cacheKey = "k1"
          /\ requests[r].rejectedWith = ErrTimeout

(* the instant the spec calls nextAvailableAt: a full window frees a place *)
(* when its oldest timestamp leaves it; the latest such instant over the   *)
(* windows that are full, 0 when none is                                   *)
FullShort == Len(requestTimes) >= requestsPerSecond
FullLong == Len(twoMinuteRequests) >= requestsPerTwoMinutes
NextAvailableAt ==
    Max(IF FullShort THEN requestTimes[1] + ShortWindow ELSE 0,
        IF FullLong THEN twoMinuteRequests[1] + LongWindow ELSE 0)

(* C24: while the loop is suspended after a denied admission, its timer is *)
(* due at the oldest timestamp of a full window plus that window's         *)
(* duration plus the 50 ms margin, the latest over the windows that are    *)
(* full; a window with capacity left does not lengthen the wait.           *)
C24_WaitsForFullWindowsOnly ==
    (loopPc = "sleeping" /\ sleepKind = "wait")
        => loopWake = NextAvailableAt + WaitMargin

----------------------------------------------------------------------------
(* The scheduler as RiotApiService.request drives it: every request is     *)
(* submitted without options, and its operation is one https.get whose     *)
(* response decides how the operation's promise settles.                   *)

MaxProviderAttempts == 3

NoHeader == "absent"                       \* res.headers['retry-after'] is undefined
RetryAfterHeaders == {NoHeader, "5"}
Bodies == { << "{}" >>, << "upstream", "rate", "limit", "reached" >> }

(* RiotApiService.request, status 429: the message of the Error *)
RateLimitExceeded(header) ==
    << "Rate", "limit", "exceeded.", "Retry", "after",
       IF header = NoHeader THEN "1" ELSE header, "seconds" >>

(* RiotApiService.request, any other status but 200: the message *)
ApiError(statusCode, data) == << "API", "Error:", statusCode, "-" >> \o data

(* what the operation rejects with, by response *)
ProviderErrors ==
    { RateLimitExceeded(h) : h \in RetryAfterHeaders }
    \cup { ApiError("503", d) : d \in Bodies }

NoOptions == [name \in {} |-> 0]

RiotRequest == AddRequestOptions(NoOptions)

LoopExecuteProvider == LoopExecuteWithin(MaxProviderAttempts)

NextProvider ==
    \/ RiotRequest
    \/ LoopIdle
    \/ LoopExecuteProvider
    \/ ExecSucceeds
    \/ \E e \in ProviderErrors : ExecFails(e)
    \/ ExecTimesOut
    \/ \E r \in Ids : RetryFire(r)
    \/ Advance

SpecProvider == InitWith(0) /\ [][NextProvider]_vars

(* the seconds the provider's 429 response asks the client to wait *)
SecondsOf(header) == IF header = NoHeader THEN 1 ELSE ParseInt(header)

(* this step is the failure of the running attempt with e *)
FailsWith(e) ==
    /\ Executing
    /\ metrics'.failedRequests = metrics.failedRequests + 1
    /\ requests'[current].lastError = e

(* C25: an attempt that fails with the Error RiotApiService.request makes  *)
(* of a 429 response is a throttling failure: consecutiveErrors and        *)
(* rateLimitHits go up by one; while the request has retries left it is    *)
(* not rejected but retried after at least the N seconds of the message,   *)
(* or the 30 s ceiling; only with no retry left is it rejected.            *)
C25_Provider429IsThrottling ==
    [][ \A h \in RetryAfterHeaders :
          FailsWith(RateLimitExceeded(h))
             => /\ consecutiveErrors' = consecutiveErrors + 1
                /\ metrics'.rateLimitHits = metrics.rateLimitHits + 1
                /\ IF requests[current].retryCount < MaxRetries
                   THEN /\ requests'[current].where = "backoff"
                        /\ requests'[current].rejects = requests[current].rejects
                        /\ requests'[current].retryDue - now
                              >= Min(SecondsOf(h) * 1000, MaxBackoff)
                   ELSE requests'[current].rejectedWith = RateLimitExceeded(h)
      ]_vars

(* a step of clearQueue: nothing else empties the 2 min history *)
Cleared == twoMinuteRequests # << >> /\ twoMinuteRequests' = << >>

(* C26: when clearQueue returns the four queues, both window histories and *)
(* the cache are empty, consecutiveErrors is 0, backoffMultiplier is 1 and *)
(* the effective capacities are the nominal 18 and 95.                     *)
C26_ClearQueueRestoresBaseline ==
    [][ Cleared
          => /\ \A p \in Tiers : priorityQueues'[p] = << >>
             /\ requestTimes' = << >>
             /\ \A key \in DOMAIN cache' : cache'[key] = NoEntry
             /\ consecutiveErrors' = 0
             /\ backoffMultiplier' = 10
             /\ requestsPerSecond' = NominalPerSecond
             /\ requestsPerTwoMinutes' = NominalPerTwoMinutes
      ]_vars

----------------------------------------------------------------------------
(* The metrics snapshot.  A JavaScript quotient a / b of two non-negative  *)
(* integers is kept as the pair of them: with b = 0 it is NaN when a = 0   *)
(* and Infinity otherwise, and a product by a positive integer keeps that. *)

Quotient(a, b) == [num |-> a, den |-> b]
Times(q, k) == [num |-> q.num * k, den |-> q.den]
Zero == [num |-> 0, den |-> 1]
IsFiniteNumber(q) == q.den # 0
IsZero(q) == q.den # 0 /\ q.num = 0

(* getMetrics: lines 333-346, the derived figures *)
GetMetrics ==
    LET uptime == now - metrics.lastResetTime
    IN  [ uptime            |-> uptime,
          requestsPerMinute |-> Times(Quotient(metrics.totalRequests, uptime), 60000),
          successRate       |-> IF metrics.totalRequests > 0
                                THEN Times(Quotient(metrics.successfulRequests,
                                                    metrics.totalRequests), 100)
                                ELSE Zero,
          cacheHitRate      |-> IF metrics.totalRequests > 0
                                THEN Times(Quotient(metrics.cacheHits,
                                                    metrics.totalRequests), 100)
                                ELSE Zero ]

(* resetMetrics: lines 371-381 *)
ResetMetrics ==
    /\ metrics' = [totalRequests |-> 0, successfulRequests |-> 0,
                   failedRequests |-> 0, rateLimitHits |-> 0, cacheHits |-> 0,
                   lastResetTime |-> now]
    /\ UNCHANGED << now, requestsPerSecond, requestsPerTwoMinutes, requestTimes,
                    twoMinuteRequests, priorityQueues, isProcessing,
                    consecutiveErrors, lastErrorTime, backoffMultiplier, cache,
                    requests, loopPc, sleepKind, loopWake, current, execStart,
                    execOrder, dequeued, lastBackoff, throttleRun, stillRunning,
                    cacheReturn, submitted,
                    recent1s, recent2m, apiCalls, slotTimes,
                    loops, queuesReset >>

(* The scheduler, freshly constructed, under callers that pass one cache   *)
(* key, operations that succeed, fail or do not complete, and an           *)
(* application that calls resetMetrics at any moment; getMetrics may be    *)
(* called in every state.                                                  *)
MaxMetricsAttempts == 2

LoopExecuteMetrics == LoopExecuteWithin(MaxMetricsAttempts)

NextMetrics ==
    \/ AddRequest(1, "k1", DefaultTimeout)
    \/ AddRequestCached("k1")
    \/ LoopIdle
    \/ LoopExecuteMetrics
    \/ ExecSucceeds
    \/ ExecFails(ErrGeneric)
    \/ ExecTimesOut
    \/ Advance
    \/ ResetMetrics

SpecMetrics == InitWith(0) /\ [][NextMetrics]_vars

(* C27: in every state getMetrics returns finite numbers for               *)
(* requestsPerMinute, successRate and cacheHitRate, and 0 for the three    *)
(* when no request has been submitted, also in the millisecond of the      *)
(* construction or of resetMetrics.                                        *)
C27_RatesFiniteAndZeroAtStart ==
    LET m == GetMetrics
    IN  /\ IsFiniteNumber(m.requestsPerMinute)
        /\ IsFiniteNumber(m.successRate)
        /\ IsFiniteNumber(m.cacheHitRate)
        /\ metrics.totalRequests = 0
              => /\ IsZero(m.requestsPerMinute)
                 /\ IsZero(m.successRate)
                 /\ IsZero(m.cacheHitRate)

(* this.maxBackoffMultiplier = 8, in tenths: line 29; nothing reads it *)
MaxBackoffMultiplier == 80

(* C28: the backoff multiplier stays between 1 and maxBackoffMultiplier,   *)
(* and under sustained throttling, here a run of throttling failures       *)
(* longer than the retries of one request, it is above 1.                  *)
C28_MultiplierRisesUnderThrottling ==
    /\ backoffMultiplier >= 10
    /\ backoffMultiplier <= MaxBackoffMultiplier
    /\ throttleRun > MaxRetries => backoffMultiplier > 10

(* C29: the succeeded and failed counters move only with a terminal        *)
(* outcome: a throttled attempt that is requeued for a retry changes       *)
(* neither, a rejection adds one to failedRequests, and the two together   *)
(* never exceed totalRequests.                                             *)
C29_CountersFollowTerminalOutcomes ==
    [][ /\ (Throttled /\ current # 0 /\ requests'[current].where = "backoff")
              => /\ metrics'.failedRequests = metrics.failedRequests
                 /\ metrics'.successfulRequests = metrics.successfulRequests
        /\ \A r \in Ids :
              requests'[r].rejects = requests[r].rejects + 1
                 => metrics'.failedRequests = metrics.failedRequests + 1
        /\ metrics'.successfulRequests + metrics'.failedRequests
              <= metrics'.totalRequests
      ]_vars

----------------------------------------------------------------------------
(* The scheduler, freshly constructed, under callers that pass a priority  *)
(* below, inside or above 1..4, or no priority at all, with operations     *)
(* that succeed or fail with a throttling error.                           *)

MaxPriorityAttempts == 2

PriorityOptions == {NoOptions} \cup { [priority |-> p] : p \in {0, 5} }

LoopExecutePriority == LoopExecuteWithin(MaxPriorityAttempts)

NextPriority ==
    \/ \E options \in PriorityOptions : AddRequestOptions(options)
    \/ LoopIdle
    \/ LoopExecutePriority
    \/ ExecSucceeds
    \/ ExecFails(Err429)
    \/ \E r \in Ids : RetryFire(r)
    \/ Advance

SpecPriority == InitWith(0) /\ [][NextPriority]_vars

(* the tier a submitted priority asks for; asked is submitted[r] *)
AskedTier(asked) ==
    IF asked = {} THEN 1
    ELSE LET p == CHOOSE x \in asked : TRUE
         IN  IF p < 1 THEN 1 ELSE IF p > 4 THEN 4 ELSE p

(* C30: every request of the scheduler has a priority in 1..4, which is    *)
(* the submitted one, 1 for one below 1 or omitted and 4 for one above 4,  *)
(* and a request that waits is in the queue of that tier, once, and in no  *)
(* other queue.                                                            *)
C30_PriorityClampedAndQueued ==
    \A r \in Ids :
       /\ requests[r].priority \in Tiers
       /\ requests[r].priority = AskedTier(submitted[r])
       /\ \A p \in Tiers :
             Occurs(priorityQueues[p], r) => p = requests[r].priority
       /\ requests[r].where = "queued"
             => Cardinality({ i \in 1..Len(priorityQueues[requests[r].priority]) :
                                 priorityQueues[requests[r].priority][i] = r }) = 1

(* a request submitted with priority 5 is back in queue 4 after a          *)
(* throttled attempt, while one submitted without a priority waits in      *)
(* queue 1                                                                 *)
C30_Witness ==
    \E r, q \in Ids :
       /\ submitted[r] = {5}
       /\ requests[r].retryCount = 1
       /\ Occurs(priorityQueues[4], r)
       /\ submitted[q] = {}
       /\ Occurs(priorityQueues[1], q)

----------------------------------------------------------------------------
(* getQueueStatus: lines 307-327, the figures it reads off the limiter     *)
GetQueueStatus ==
    [ totalQueued            |-> Len(priorityQueues[1]) + Len(priorityQueues[2])
                                   + Len(priorityQueues[3]) + Len(priorityQueues[4]),
      requestsLastSecond     |-> Len(requestTimes),
      requestsLastTwoMinutes |-> Len(twoMinuteRequests),
      isProcessing           |-> isProcessing,
      consecutiveErrors      |-> consecutiveErrors,
      backoffMultiplier      |-> backoffMultiplier,
      cacheSize              |-> Cardinality({ key \in DOMAIN cache : cache[key] # NoEntry }) ]

(* the admissions made less than window ms before now.  No admission       *)
(* younger than 2 min is ever removed from twoMinuteRequests when          *)
(* clearQueue is not called, so they are counted there.                    *)
AdmissionsWithin(window) == Len(Prune(twoMinuteRequests, now, window))

(* C31: at every instant the window counts of getQueueStatus are the       *)
(* numbers of admissions of the last 1000 ms and of the last 120000 ms,    *)
(* whether or not a request was dequeued since older ones aged out.        *)
C31_StatusCountsAreCurrent ==
    /\ GetQueueStatus.requestsLastSecond = AdmissionsWithin(ShortWindow)
    /\ GetQueueStatus.requestsLastTwoMinutes = AdmissionsWithin(LongWindow)

----------------------------------------------------------------------------
(* src/main.js: the sliding-window slot limiter acquireRateLimitSlot and   *)
(* the request helper riotApiRequest.  They share nothing with the class   *)
(* RateLimiter but the clock.                                              *)

MaxApiCalls == 2         \* riotApiRequest calls
MaxHttpAttempts == 7     \* https.get calls, over all riotApiRequest calls
NearLimit1S == 19        \* slots granted in the current second before the first call
NearLimit2M == 99        \* slots granted in the last seconds before the first call

limiterVars == << requestsPerSecond, requestsPerTwoMinutes, requestTimes,
                  twoMinuteRequests, priorityQueues, isProcessing,
                  consecutiveErrors, lastErrorTime, backoffMultiplier, cache,
                  metrics, requests, loopPc, sleepKind, loopWake, current,
                  execStart, execOrder, dequeued, lastBackoff, throttleRun,
                  stillRunning, cacheReturn, submitted, loops, queuesReset >>

ApiIds == 1..Len(apiCalls)

(* while (recent.length && now - recent[0] >= WINDOW) recent.shift() *)
RECURSIVE ShiftOld(_, _, _)
ShiftOld(recent, t, window) ==
    IF recent # << >> /\ t - recent[1] >= window
    THEN ShiftOld(Tail(recent), t, window)
    ELSE recent

(* the test of the capacities with <= in place of < *)
HasSlotInclusive(r1, r2) == Len(r1) <= LIMIT_1S /\ Len(r2) <= LIMIT_2M

(* acquireRateLimitSlot: recent1s.length < LIMIT_1S && recent2m.length < LIMIT_2M *)
HasSlot(r1, r2) == Len(r1) < LIMIT_1S /\ Len(r2) < LIMIT_2M

(* acquireRateLimitSlot: the delay of its setTimeout.  wait || Infinity    *)
(* drops a term that is 0; the two are never 0 together when a slot was    *)
(* refused, because a window that is full is not empty.                    *)
SlotWait(t, r1, r2) ==
    LET wait1 == IF r1 # << >> THEN WINDOW_1S_MS - (t - r1[1]) ELSE 0
        wait2 == IF r2 # << >> THEN WINDOW_2M_MS - (t - r2[1]) ELSE 0
    IN  Max(1, IF wait1 = 0 THEN wait2
               ELSE IF wait2 = 0 THEN wait1
               ELSE Min(wait1, wait2))

NewCall ==
    [ pc         |-> "acquiring",  \* acquiring, waiting (the timer of
                                   \* acquireRateLimitSlot is pending), inflight
                                   \* (https.get sent), backoff (a retry timer is
                                   \* pending), resolved, rejected
      retryCount |-> 0,            \* the argument of the running attempt()
      wake       |-> 0,            \* instant the pending timer is due
      attempts   |-> 0,            \* history: https.get calls
      retryTimes |-> << >>,        \* history: the instants of the attempts after the first
      retries    |-> [response |-> 0, network |-> 0],
                                   \* history: retries scheduled, by what caused them
      resolves   |-> 0,            \* history: calls of resolve
      rejects    |-> 0,            \* history: calls of reject
      lastStatus |-> 0,            \* history: status of the response the last attempt
                                   \* ended with, 0 if it ended with an error
      settledWith |-> << >> ]      \* history: the body resolved with, or the message of
                                   \* the error rejected with

(* One iteration of the loop of acquireRateLimitSlot for call c, and, when *)
(* the slot is granted, the continuation of riotApiRequest up to its       *)
(* first https.get: lines 443-460 and 473-477, 515                         *)
AcquireIteration(c, calls) ==
    LET r1 == ShiftOld(recent1s, now, WINDOW_1S_MS)
        r2 == ShiftOld(recent2m, now, WINDOW_2M_MS)
    IN  IF HasSlot(r1, r2)
        THEN /\ recent1s' = Append(r1, now)
             /\ recent2m' = Append(r2, now)
             /\ slotTimes' = Append(slotTimes, now)
             /\ apiCalls' = [calls EXCEPT ![c].pc = "inflight", ![c].attempts = 1]
        ELSE /\ recent1s' = r1
             /\ recent2m' = r2
             /\ slotTimes' = slotTimes
             /\ apiCalls' = [calls EXCEPT ![c].pc = "waiting",
                                          ![c].wake = now + SlotWait(now, r1, r2)]

TotalHttpAttempts == SumAttempts(apiCalls, Len(apiCalls))

(* riotApiRequest is called: lines 464-473, then acquireRateLimitSlot up   *)
(* to its first await or its return                                        *)
RiotApiRequest ==
    /\ Len(apiCalls) < MaxApiCalls
    /\ TotalHttpAttempts < MaxHttpAttempts
    /\ AcquireIteration(Len(apiCalls) + 1, Append(apiCalls, NewCall))
    /\ UNCHANGED << now, limiterVars >>

(* the timer of acquireRateLimitSlot fires: the next iteration *)
SlotTimerFires(c) ==
    /\ apiCalls[c].pc = "waiting"
    /\ now >= apiCalls[c].wake
    /\ AcquireIteration(c, apiCalls)
    /\ UNCHANGED << now, limiterVars >>

(* What the provider answers: status, retry-after header, body *)
ValidBody == << "{}" >>
InvalidBody == << "<html>" >>
Statuses == {200, 404, 429, 503}
Responses ==
    { [status |-> 200, header |-> NoHeader, data |-> b] : b \in {ValidBody, InvalidBody} }
    \cup { [status |-> 404, header |-> NoHeader, data |-> InvalidBody] }
    \cup { [status |-> 429, header |-> h, data |-> ValidBody] : h \in RetryAfterHeaders }
    \cup { [status |-> 503, header |-> NoHeader, data |-> InvalidBody] }

StatusWord(status) ==
    CASE status = 200 -> "200" [] status = 404 -> "404"
      [] status = 429 -> "429" [] status = 503 -> "503"

(* JSON.parse(data) returns *)
Parses(data) == data = ValidBody

ParseError == << "API", "Parse", "Error:", "Unexpected", "token" >>
NetworkError == << "socket", "hang", "up" >>

(* riotApiRequest: status === 429 || (status >= 500 && status < 600) *)
Retryable(status) == status = 429 \/ (status >= 500 /\ status < 600)

(* the retry ceiling of a response one higher *)
ResponseRetriesPlusOne == 5 + 1

(* riotApiRequest: retryCount < 5, line 499 *)
ResponseRetries == 5

(* riotApiRequest: retryCount < 3, line 508 *)
NetworkRetries == 3

(* riotApiRequest: the delay before the retry of a 429/5xx response *)
ResponseBackoff(header, retryCount) ==
    IF header # NoHeader
    THEN Max(1000, SecondsOf(header) * 1000)
    ELSE Min(15000, 1000 * Pow2(retryCount))

SettleCall(calls, c, how, with) ==
    IF how = "resolved"
    THEN [calls EXCEPT ![c].pc = "resolved", ![c].resolves = @ + 1,
                       ![c].settledWith = with]
    ELSE [calls EXCEPT ![c].pc = "rejected", ![c].rejects = @ + 1,
                       ![c].settledWith = with]

RetryCall(calls, c, cause, due) ==
    [calls EXCEPT ![c].pc = "backoff", ![c].wake = due,
                  ![c].retries[cause] = @ + 1]

(* The response of the running attempt of call c has ended: lines 478-505 *)
ResponseEnds(c, res) ==
    /\ apiCalls[c].pc = "inflight"
    /\ LET seen == [apiCalls EXCEPT ![c].lastStatus = res.status]
       IN  apiCalls' =
             IF res.status = 200
             THEN IF Parses(res.data)
                  THEN SettleCall(seen, c, "resolved", res.data)
                  ELSE SettleCall(seen, c, "rejected", ParseError)
             ELSE IF Retryable(res.status) /\ apiCalls[c].retryCount < ResponseRetries
             THEN RetryCall(seen, c, "response",
                            now + ResponseBackoff(res.header, apiCalls[c].retryCount))
             ELSE SettleCall(seen, c, "rejected",
                             ApiError(StatusWord(res.status), res.data))
    /\ UNCHANGED << now, recent1s, recent2m, slotTimes, limiterVars >>

(* The running attempt of call c emits 'error': lines 506-512 *)
RequestErrors(c) ==
    /\ apiCalls[c].pc = "inflight"
    /\ apiCalls' =
          LET seen == [apiCalls EXCEPT ![c].lastStatus = 0]
          IN  IF apiCalls[c].retryCount < NetworkRetries
              THEN RetryCall(seen, c, "network",
                             now + 500 * (apiCalls[c].retryCount + 1))
              ELSE SettleCall(seen, c, "rejected", NetworkError)
    /\ UNCHANGED << now, recent1s, recent2m, slotTimes, limiterVars >>

(* The retry timer of call c fires: attempt(retryCount + 1), lines 500, 509 *)
RetryTimerFires(c) ==
    /\ apiCalls[c].pc = "backoff"
    /\ now >= apiCalls[c].wake
    /\ TotalHttpAttempts < MaxHttpAttempts
    /\ apiCalls' = [apiCalls EXCEPT ![c].pc = "inflight",
                                    ![c].retryCount = @ + 1,
                                    ![c].attempts = @ + 1,
                                    ![c].retryTimes = Append(@, now)]
    /\ UNCHANGED << now, recent1s, recent2m, slotTimes, limiterVars >>

(* The clock moves to the next timer of main.js *)
MainInstants ==
    { apiCalls[c].wake : c \in { i \in ApiIds : apiCalls[i].pc \in {"waiting", "backoff"} } }

AdvanceMain ==
    /\ \E t \in MainInstants :
          /\ t > now
          /\ \A u \in MainInstants : u > now => t <= u
          /\ t <= MaxTime
          /\ now' = t
    /\ UNCHANGED << recent1s, recent2m, apiCalls, slotTimes, limiterVars >>

(* main.js under a caller that calls riotApiRequest when the call before   *)
(* has settled, and a provider that answers each attempt with any of the   *)
(* responses or not at all (a network error).                              *)
CallSettled(c) == apiCalls[c].pc \in {"resolved", "rejected"}

RiotApiRequestInTurn ==
    /\ \A c \in ApiIds : CallSettled(c)
    /\ RiotApiRequest

PriorSlots == {0, NearLimit1S}

InitMain == \E k \in PriorSlots : LimiterInitWith(0) /\ MainInitWith(k)

NextApi ==
    \/ RiotApiRequestInTurn
    \/ \E c \in ApiIds : SlotTimerFires(c)
    \/ \E c \in ApiIds : \E res \in Responses : ResponseEnds(c, res)
    \/ \E c \in ApiIds : RequestErrors(c)
    \/ \E c \in ApiIds : RetryTimerFires(c)
    \/ AdvanceMain

SpecApi == InitMain /\ [][NextApi]_vars

(* the running attempt of call c ends in this step *)
AttemptEnds(c) == apiCalls[c].pc = "inflight" /\ apiCalls'[c].pc # "inflight"

(* what riotApiRequest does with an attempt that ends with anything but a  *)
(* 200 response, and how often it settles and sends                        *)
RetriesAndSettlement(c) ==
    LET before == apiCalls[c]
        after  == apiCalls'[c]
        status == after.lastStatus
    IN  /\ after.resolves + after.rejects <= 1
        /\ after.pc \in {"resolved", "rejected"} <=> after.resolves + after.rejects = 1
        /\ after.attempts <= 6
        /\ after.retries.response <= 5
        /\ after.retries.network <= 3
        /\ (AttemptEnds(c) /\ status \notin {0, 200} /\ ~ Retryable(status))
              => /\ after.pc = "rejected"
                 /\ after.retries = before.retries
                 /\ SubSeq(after.settledWith, 1, 3)
                        = << "API", "Error:", StatusWord(status) >>
        /\ (AttemptEnds(c) /\ Retryable(status))
              => \/ after.pc = "backoff" /\ before.retryCount < 5
                 \/ /\ after.pc = "rejected"
                    /\ before.retryCount = 5
                    /\ SubSeq(after.settledWith, 1, 3)
                           = << "API", "Error:", StatusWord(status) >>
        /\ (AttemptEnds(c) /\ status = 0)
              => \/ after.pc = "backoff" /\ before.retryCount < 3
                 \/ after.pc = "rejected" /\ before.retryCount >= 3

----------------------------------------------------------------------------
----------------------------------------------------------------------------
(* The scheduler, freshly constructed, under a caller that submits         *)
(* requests, clears the queues, stops the scheduler and starts it again at *)
(* any moment, and operations that succeed or are throttled.               *)
LoopExecuteLifecycle == LoopExecuteWithin(MaxLifecycleAttempts)

NextLifecycle ==
    \/ AddRequest(1, NoKey, DefaultTimeout)
    \/ LoopIdle
    \/ LoopExecuteLifecycle
    \/ ExecSucceeds
    \/ ExecFails(Err429)
    \/ \E r \in Ids : RetryFire(r)
    \/ Advance
    \/ ClearQueue
    \/ Stop
    \/ StartProcessing
    \/ LoopReturns
    \/ OtherLoopReturns

SpecLifecycle == InitWith(0) /\ [][NextLifecycle]_vars

(* C34: once clearQueue or stop has returned, every priority queue stays   *)
(* empty until the next addRequest, also when a throttled request was      *)
(* waiting out its backoff delay at the time of the reset.                 *)
C34_QueuesStayEmptyAfterReset == queuesReset => QueuesEmpty

(* The same under the scheduling of the event loop: a loop that can take a *)
(* step takes it, a timer that is due fires, the clock reaches the next    *)
(* instant at which something is due, and a running operation ends.  The   *)
(* caller is under no obligation.                                          *)
FairSpecLifecycle ==
    /\ SpecLifecycle
    /\ WF_vars(LoopIdle \/ LoopExecuteLifecycle \/ LoopReturns \/ OtherLoopReturns)
    /\ WF_vars(ExecSucceeds \/ ExecFails(Err429))
    /\ WF_vars(\E r \in Ids : RetryFire(r))
    /\ WF_vars(Advance)

HeldAtReset(r) == r \in Ids /\ requests[r].atReset # "none"

(* C37: every request that clearQueue or stop removed from a queue, and    *)
(* every request that was being executed or awaiting its re-insertion at   *)
(* that time, is eventually resolved or rejected (in the behaviours that   *)
(* stay below the bound on the attempts).                                  *)
C37_ResetLeavesNoCallerWaiting ==
    \/ \A r \in 1..MaxRequests :
           [](HeldAtReset(r) => <>(r \in Ids /\ Settled(r)))
    \/ <>(TotalAttempts >= MaxLifecycleAttempts)

(* C38: for any sequence of startProcessing and stop calls at most one     *)
(* processLoop is alive at a time, and while the scheduler is stopped no   *)
(* further operation is started.                                           *)
C38_OneLoopAtATime ==
    /\ [](loops <= 1)
    /\ [][~ isProcessing => TotalAttempts' = TotalAttempts]_vars

----------------------------------------------------------------------------
(* acquireRateLimitSlot under concurrent callers: riotApiRequest is called *)
(* at any instant, also while earlier calls wait for their slot, and the   *)
(* provider answers every attempt with a 200 response that parses.  The    *)
(* instants at which a caller arrives are the ones around the expiry of    *)
(* the oldest slot of each window.                                         *)
OkResponse == [status |-> 200, header |-> NoHeader, data |-> ValidBody]

ArrivalInstants ==
    (IF recent1s # << >>
     THEN {recent1s[1] + WINDOW_1S_MS - 1, recent1s[1] + WINDOW_1S_MS} ELSE {})
    \cup (IF recent2m # << >>
          THEN {recent2m[1] + WINDOW_2M_MS - 1, recent2m[1] + WINDOW_2M_MS} ELSE {})

AdvanceToArrival ==
    /\ Len(apiCalls) < MaxApiCalls
    /\ \E t \in ArrivalInstants :
          /\ t > now
          /\ t <= MaxTime
          /\ \A u \in MainInstants : t <= u
          /\ now' = t
    /\ UNCHANGED << recent1s, recent2m, apiCalls, slotTimes, limiterVars >>

SlotHistories == {0, NearLimit1S, NearLimit2M}

InitSlots == \E k \in SlotHistories : LimiterInitWith(0) /\ MainInitWith(k)

NextSlots ==
    \/ RiotApiRequest
    \/ \E c \in ApiIds : SlotTimerFires(c)
    \/ \E c \in ApiIds : ResponseEnds(c, OkResponse)
    \/ AdvanceMain
    \/ AdvanceToArrival

SpecSlots == InitSlots /\ [][NextSlots]_vars

(* The same under the scheduling of the event loop: a timer that is due    *)
(* fires and the clock reaches the instant of the next timer.              *)
FairSpecSlots ==
    /\ SpecSlots
    /\ WF_vars(\E c \in ApiIds : SlotTimerFires(c))
    /\ WF_vars(AdvanceMain)

(* The slots granted in the span of `window` ms that begins at instant t *)
SlotsWithin(t, window) ==
    Cardinality({ i \in 1..Len(slotTimes) :
                    slotTimes[i] >= t /\ slotTimes[i] < t + window })

NoOverAdmission ==
    \A i \in 1..Len(slotTimes) :
        /\ SlotsWithin(slotTimes[i], WINDOW_1S_MS) <= LIMIT_1S
        /\ SlotsWithin(slotTimes[i], WINDOW_2M_MS) <= LIMIT_2M

Granted(c) == c \in ApiIds /\ apiCalls[c].attempts >= 1

----------------------------------------------------------------------------
(* The slots acquireRateLimitSlot has granted to call c: riotApiRequest    *)
(* awaits it once, before its first attempt                                *)
SlotsOf(c) == IF apiCalls[c].pc \in {"acquiring", "waiting"} THEN 0 ELSE 1

(* The HTTP attempts started in the span of 1000 ms that begins at instant *)
(* t: the first attempts, one per slot granted, and the retries.           *)
AttemptsWithin(t) ==
    SlotsWithin(t, WINDOW_1S_MS)
    + Cardinality({ << c, j >> \in ApiIds \X (1..MaxHttpAttempts) :
                      /\ j <= Len(apiCalls[c].retryTimes)
                      /\ apiCalls[c].retryTimes[j] >= t
                      /\ apiCalls[c].retryTimes[j] < t + WINDOW_1S_MS })

AttemptInstants ==
    { slotTimes[i] : i \in 1..Len(slotTimes) }
    \cup UNION { { apiCalls[c].retryTimes[j] : j \in 1..Len(apiCalls[c].retryTimes) }
                 : c \in ApiIds }

(* C36: every HTTP attempt of riotApiRequest, each retry included, has its *)
(* own slot, and the attempts started within any span of 1000 ms are at    *)
(* most LIMIT_1S.                                                          *)
C36_EveryAttemptHasItsSlot ==
    /\ \A c \in ApiIds : apiCalls[c].attempts = SlotsOf(c)
    /\ \A t \in AttemptInstants : AttemptsWithin(t) <= LIMIT_1S

====
